---- MODULE Spec2Model ----
(***************************************************************************)
(* State-machine model of mangadex_downloader/format/pdf.py: the PDF      *)
(* formats PDF, PDFSingle and PDFVolume (the submitting pipeline), the    *)
(* convert job each of them hands to the worker, and the modified Pillow  *)
(* PDF writer PDFPlugin._save with PDFPlugin.check_truncated and the      *)
(* process-wide ImageFile.LOAD_TRUNCATED_IMAGES switch.                   *)
(***************************************************************************)
EXTENDS Integers, Sequences, FiniteSets, TLC

\* ------------------------------------------------------------------ bounds
\* chapters of the manga handed to main()
MaxChapters == 2
\* source images of the job examined on its own (SpecJob)
MaxImages == 2
\* frames of a source image (n_frames)
MaxFrames == 2
\* worker threads of the pool and capacity of its submission queue
PoolSize == 2
QueueCap == 1

\* ------------------------------------------------------------ source images
\* Pillow's im.mode; "LA" stands for every mode the writer has no branch for
Modes == {"1", "L", "P", "RGB", "CMYK", "LA"}

\* What img.load() does with the file:
\*   ok       decodes
\*   trunc    OSError 'broken data stream' unless LOAD_TRUNCATED_IMAGES
\*   truncbad OSError 'broken data stream', also under LOAD_TRUNCATED_IMAGES
\*   corrupt  another OSError
DecodeKinds == {"ok", "trunc", "truncbad", "corrupt"}

\* volume of a chapter; 0 is chap_class.volume = None
Volumes == {0, 1}

\* The attributes of one source file: mode and n_frames as Image.open reports
\* them, how load() ends, and whether the JPEG encoder raises on it.
Attr(m, n, d, e) == [mode |-> m, frames |-> n, dec |-> d, enc |-> e]

\* Files of a job examined on its own: every mode and frame count that
\* decodes and encodes, and every decode/encode outcome on a plain RGB file.
ImageKinds ==
    {Attr(m, n, "ok", FALSE) : m \in Modes, n \in 1..MaxFrames}
    \cup {Attr("RGB", 1, d, e) : d \in DecodeKinds, e \in BOOLEAN}

\* Files of the chapters the pipeline downloads
PipelineKinds == {Attr("RGB", 1, "ok", FALSE), Attr("RGB", 1, "trunc", FALSE)}

RECURSIVE SeqsUpTo(_, _)
SeqsUpTo(S, n) ==
    IF n = 0 THEN {<<>>}
    ELSE LET shorter == SeqsUpTo(S, n - 1)
         IN shorter \cup {Append(s, x) : s \in {t \in shorter : Len(t) = n - 1}, x \in S}

Range(s) == {s[k] : k \in DOMAIN s}

VARIABLES
    \* configuration and input of one run of main()
    grouping,           \* which class runs: "PerChapter" (PDF), "SingleMerged", "PerVolume"
    replace,            \* self.replace
    no_chapter_info,    \* self.no_chapter_info
    chapters,           \* manga.chapters: sequence of [volume, pages]
    preexisting,        \* targets whose file exists before the run
    pillow_ready,       \* module global: `from PIL import ...` succeeded
    \* the frame of main()
    mpc,                \* position of main()
    cache,              \* the groups main() iterates: sequence of [key, chaps]
    gi,                 \* group (chapter, volume) the loop is at
    ci,                 \* chapter of the group the inner loop is at
    images,             \* local `images`: the list object it is bound to (0: unbound)
    pdf_file,           \* local `pdf_file`: the target it is bound to (0: unbound)
    count,              \* NumberWithLeadingZeros
    lists,              \* the list objects main() created, by group
    visited,            \* groups whose existence check has run
    \* file system
    files,              \* target -> "absent" | "old" | "partial" | "complete"
    dirs,               \* staging directory -> "none" | "present" | "removed"
    \* worker
    pool,               \* "none" | "created": self.create_worker() has run
    queue,              \* submitted closures not yet taken
    jobs,               \* job (by submitting group) -> its frame of convert/_save
    shut,               \* worker.shutdown() has returned
    subm,               \* job -> what `images` and `pdf_file` held at submit
    \* Pillow
    LOAD_TRUNCATED_IMAGES,
    loads               \* every decode done: [job, relaxed, recovering]

inputs == <<grouping, replace, no_chapter_info, chapters, preexisting, pillow_ready>>
mainframe == <<mpc, cache, gi, ci, images, pdf_file, count, lists, visited>>
fs == <<files, dirs>>
worker == <<pool, queue, jobs, shut, subm>>
pillow == <<LOAD_TRUNCATED_IMAGES, loads>>
vars == <<inputs, mainframe, fs, worker, pillow>>

JobIds == 1..MaxChapters

\* ---------------------------------------------------------------- the job
\* The frame of one convert() call, with the PdfParser of its _save.
NoJob ==
    [pc |-> "none",
     listRef |-> 0,         \* the list object the closure read from `images`
     target |-> 0,          \* the target the closure read from `pdf_file`
     total |-> 0,           \* tqdm(total=len(ims))
     progress |-> 0,        \* tqdm.update(1) calls
     ims |-> <<>>,          \* [im] + append_images
     idx |-> 0,             \* position of the running loop in ims
     fr |-> 0,              \* frame of ims[idx] the page loop is at
     ret |-> "",            \* caller of check_truncated: "convert" or "loop"
     truncated |-> FALSE,   \* what check_truncated returned to the page loop
     nobj |-> 0,            \* ids handed out by next_object_id
     image_refs |-> <<>>,
     page_refs |-> <<>>,
     contents_refs |-> <<>>,
     pages |-> <<>>,        \* existing_pdf.pages
     pageNumber |-> 0,
     written |-> <<>>,      \* object ids in the order write_obj wrote them
     pagesrc |-> <<>>,      \* per write_page: [ref, img, fr] it drew
     opened |-> {},         \* positions of ims whose file handle is open
     recovered |-> {},      \* positions whose check_truncated set the switch
     unlinked |-> FALSE,    \* the target was deleted under the open handle
     err |-> "",            \* the exception that ended the job
     fp |-> "none",         \* the handle Image.save opened: "none" | "open" | "closed"
     created |-> FALSE,     \* Image.save: the target did not exist when it was opened
     xref |-> FALSE,        \* write_xref_and_trailer() has run
     wlog |-> <<>>]         \* what the PdfParser did, in order

Terminal(j) == jobs[j].pc \in {"done", "aborted"}
Submitted(j) == jobs[j].pc # "none"
Running(j) == jobs[j].pc \notin {"none", "queued", "done", "aborted"}

\* os.path of a source image exists: rmtree removes the whole staging directory
FileExists(img) == dirs[img.dir] = "present"

\* the exception is handled where it is raised and the page loop goes on
Raise_Swallowed(r, e) ==
    [r EXCEPT !.err = e, !.pc = IF r.pc = "page" THEN "lp_close" ELSE "aborted"]

\* `raise`: the exception e leaves convert, which has no handler; inside
\* im.save it first passes through the handler of Image.save
Raise(r, e) ==
    [r EXCEPT !.err = e, !.pc = IF r.fp = "open" THEN "save_except" ELSE "aborted"]

\* worker thread: takes the oldest closure when a thread of the pool is free
WorkerTake(j) ==
    /\ queue # <<>>
    /\ Head(queue) = j
    /\ Cardinality({k \in JobIds : Running(k)}) < PoolSize
    /\ queue' = Tail(queue)
    /\ jobs' = [jobs EXCEPT ![j].pc = "lambda_images"]
    /\ UNCHANGED <<inputs, pool, mainframe, fs, shut, subm, pillow>>

\* lambda: self.convert(images, pdf_file) -- the closure reads the cells of
\* main()'s locals when it is called, one after the other
LambdaImages(j) ==
    /\ jobs[j].pc = "lambda_images"
    /\ jobs' = [jobs EXCEPT ![j].pc = "lambda_target", ![j].listRef = images]
    /\ UNCHANGED <<inputs, pool, mainframe, fs, queue, shut, subm, pillow>>

LambdaTarget(j) ==
    /\ jobs[j].pc = "lambda_target"
    /\ jobs' = [jobs EXCEPT ![j].pc = "convert_init", ![j].target = pdf_file]
    /\ UNCHANGED <<inputs, pool, mainframe, fs, queue, shut, subm, pillow>>

\* convert: pdf_plugin = PDFPlugin(imgs) -> tqdm(total=len(ims))
ConvertInit(j) ==
    /\ jobs[j].pc = "convert_init"
    /\ jobs' = [jobs EXCEPT ![j].pc = "convert_copy",
                            ![j].total = Len(lists[jobs[j].listRef])]
    /\ UNCHANGED <<inputs, pool, mainframe, fs, queue, shut, subm, pillow>>

\* convert: images = [_PageRef(Image.open, im) for im in imgs]; images.pop(0)
ConvertCopy(j) ==
    /\ jobs[j].pc = "convert_copy"
    /\ LET l == lists[jobs[j].listRef]
       IN jobs' = [jobs EXCEPT ![j] =
                IF l = <<>> THEN Raise(@, "IndexError")   \* pop from empty list
                ELSE [@ EXCEPT !.pc = "convert_open", !.ims = l, !.idx = 1]]
    /\ UNCHANGED <<inputs, pool, mainframe, fs, queue, shut, subm, pillow>>

\* convert: im = im_ref()  (Image.open of the first path)
ConvertOpen(j) ==
    /\ jobs[j].pc = "convert_open"
    /\ jobs' = [jobs EXCEPT ![j] =
            IF ~FileExists(@.ims[1]) THEN Raise(@, "FileNotFoundError")
            ELSE [@ EXCEPT !.pc = "ct_load", !.ret = "convert", !.opened = {1}]]
    /\ UNCHANGED <<inputs, pool, mainframe, fs, queue, shut, subm, pillow>>

\* ------------------------------------------------------- check_truncated
\* img.load(): how a decode of a file of kind dec ends under the switch
LoadResult(dec, relaxed) ==
    CASE dec = "ok" -> "loaded"
      [] dec = "trunc" -> IF relaxed THEN "loaded" ELSE "broken data stream"
      [] dec = "truncbad" -> "broken data stream"
      [] OTHER -> "other error"

\* where check_truncated returns to: convert goes on to im.save, the page
\* loop to the pages of the image
Return(r, truncated) ==
    IF r.ret = "convert"
    THEN [r EXCEPT !.pc = "save_open"]
    ELSE [r EXCEPT !.pc = "page", !.fr = 1, !.truncated = truncated]

\* check_truncated: try: img.load() ... 'broken data stream' in str(err)
CheckLoad(j) ==
    /\ jobs[j].pc = "ct_load"
    /\ LET r == jobs[j]
           img == r.ims[r.idx]
           res == LoadResult(img.dec, LOAD_TRUNCATED_IMAGES)
       IN IF r.ret = "loop" /\ r.idx = 1
          THEN \* the first image was loaded by convert: load() decodes nothing
               /\ jobs' = [jobs EXCEPT ![j] = Return(r, FALSE)]
               /\ loads' = loads
          ELSE /\ jobs' = [jobs EXCEPT ![j] =
                    CASE res = "loaded" -> Return(r, FALSE)
                      [] res = "broken data stream" -> [r EXCEPT !.pc = "ct_set"]
                      [] OTHER -> Raise(r, "OSError")]       \* raise err
               /\ loads' = IF res = "loaded"
                           THEN loads \cup {[job |-> j, relaxed |-> LOAD_TRUNCATED_IMAGES,
                                             recovering |-> FALSE]}
                           ELSE loads
    /\ UNCHANGED <<inputs, pool, mainframe, fs, queue, shut, subm, LOAD_TRUNCATED_IMAGES>>

\* check_truncated: ImageFile.LOAD_TRUNCATED_IMAGES = True
CheckSet(j) ==
    /\ jobs[j].pc = "ct_set"
    /\ LOAD_TRUNCATED_IMAGES' = TRUE
    /\ jobs' = [jobs EXCEPT ![j].pc = "ct_retry",
                            ![j].recovered = @ \cup {jobs[j].idx}]
    /\ UNCHANGED <<inputs, pool, mainframe, fs, queue, shut, subm, loads>>

\* check_truncated: img.load() again; return True
CheckRetry(j) ==
    /\ jobs[j].pc = "ct_retry"
    /\ LET r == jobs[j]
           res == LoadResult(r.ims[r.idx].dec, LOAD_TRUNCATED_IMAGES)
       IN /\ jobs' = [jobs EXCEPT ![j] =
                IF res = "loaded" THEN Return(r, TRUE) ELSE Raise(r, "OSError")]
          /\ loads' = IF res = "loaded"
                      THEN loads \cup {[job |-> j, relaxed |-> LOAD_TRUNCATED_IMAGES,
                                        recovering |-> TRUE]}
                      ELSE loads
    /\ UNCHANGED <<inputs, pool, mainframe, fs, queue, shut, subm, LOAD_TRUNCATED_IMAGES>>

\* ------------------------------------------------------------------ _save
\* im.save(target, save_all=True, append_images=images): Image.save opens the
\* target "w+b"; _save: PdfParser(mode="w+b"), info, im.load(), start_writing,
\* write_header, write_comment
SaveOpen(j) ==
    /\ jobs[j].pc = "save_open"
    /\ files' = [files EXCEPT ![jobs[j].target] = "partial"]
    /\ jobs' = [jobs EXCEPT ![j].pc = "prealloc", ![j].idx = 1, ![j].unlinked = FALSE,
                            ![j].fp = "open",
                            ![j].created = (files[jobs[j].target] = "absent"),
                            ![j].wlog = <<"header">>]
    /\ UNCHANGED <<inputs, pool, mainframe, dirs, queue, shut, subm, pillow>>

\* the ids next_object_id hands out for the n frames of one image: per frame
\* an image, a page and a contents id, in this order
FrameRefs(nobj, n, k) == [f \in 1..n |-> nobj + 3 * (f - 1) + k]

\* _save: for im_ref in ims: ... next_object_id(0) x3, pages.append -- one image
Prealloc(j) ==
    /\ jobs[j].pc = "prealloc"
    /\ LET r == jobs[j]
           img == r.ims[r.idx]
           n == img.frames              \* save_all: img.n_frames
       IN jobs' = [jobs EXCEPT ![j] =
            IF r.idx > 1 /\ ~FileExists(img)                 \* im_ref() of a _PageRef
            THEN Raise(r, "FileNotFoundError")
            ELSE [r EXCEPT
                    !.image_refs = @ \o FrameRefs(r.nobj, n, 1),
                    !.page_refs = @ \o FrameRefs(r.nobj, n, 2),
                    !.contents_refs = @ \o FrameRefs(r.nobj, n, 3),
                    !.pages = @ \o FrameRefs(r.nobj, n, 2),
                    !.nobj = @ + 3 * n,
                    !.wlog = @ \o [f \in 1..n |-> "alloc"],
                    !.idx = IF r.idx < Len(r.ims) THEN @ + 1 ELSE @,
                    !.pc = IF r.idx < Len(r.ims) THEN "prealloc" ELSE "catalog"]]
    /\ UNCHANGED <<inputs, pool, mainframe, fs, queue, shut, subm, pillow>>

\* _save: if ImageFile.LOAD_TRUNCATED_IMAGES: ImageFile.LOAD_TRUNCATED_IMAGES = False
FlagAfterCatalog(flag) == FALSE

\* _save: existing_pdf.write_catalog(), then the switch is put back
Catalog(j) ==
    /\ jobs[j].pc = "catalog"
    /\ jobs' = [jobs EXCEPT ![j] =
            [@ EXCEPT !.written = @ \o <<jobs[j].nobj + 1, jobs[j].nobj + 2>>,
                      !.nobj = @ + 2,
                      !.wlog = Append(@, "catalog"),
                      !.idx = 1,
                      !.pc = "lp_open"]]
    /\ LOAD_TRUNCATED_IMAGES' = FlagAfterCatalog(LOAD_TRUNCATED_IMAGES)
    /\ UNCHANGED <<inputs, pool, mainframe, fs, queue, shut, subm, loads>>

\* _save, page loop: im = im_ref() if isinstance(im_ref, _PageRef) else im_ref
LoopOpen(j) ==
    /\ jobs[j].pc = "lp_open"
    /\ LET r == jobs[j]
       IN jobs' = [jobs EXCEPT ![j] =
            IF r.idx > 1 /\ ~FileExists(r.ims[r.idx]) THEN Raise(r, "FileNotFoundError")
            ELSE [r EXCEPT !.pc = "ct_load", !.ret = "loop",
                           !.opened = @ \cup {r.idx}]]
    /\ UNCHANGED <<inputs, pool, mainframe, fs, queue, shut, subm, pillow>>

\* the image goes to the pages in the mode it was decoded in
SequenceMode_Unconverted(img) == img.mode

\* _save: imSequence = im.convert('RGB') if im.mode != 'RGB' else im.
\* Image.convert returns a new single-frame image of the current frame.
SequenceMode(img) == "RGB"
SequenceFrames(img) == IF img.mode # "RGB" THEN 1 ELSE img.frames

\* _save: the if/elif chain on im.mode; "unsupported" is the ValueError
Filter(mode) ==
    CASE mode \in {"1", "L", "RGB", "CMYK"} -> "DCTDecode"
      [] mode = "P" -> "ASCIIHexDecode"
      [] OTHER -> "unsupported"

ColorSpace(mode) ==
    CASE mode \in {"1", "L"} -> <<"DeviceGray">>
      [] mode = "P" -> <<"Indexed", "DeviceRGB", "255", "palette">>
      [] mode = "RGB" -> <<"DeviceRGB">>
      [] mode = "CMYK" -> <<"DeviceCMYK">>
      [] OTHER -> <<>>

Bits(mode) == IF mode = "1" THEN 1 ELSE 8

Decode(mode) == IF mode = "CMYK" THEN <<1, 0, 1, 0, 1, 0, 1, 0>> ELSE <<>>

\* _save: one pass of `for im in im_pages`: encode the frame, write_obj of the
\* image, write_page, write_obj of the contents, tqdm.update(1), pageNumber += 1
Page(j) ==
    /\ jobs[j].pc = "page"
    /\ LET r == jobs[j]
           img == r.ims[r.idx]
           p == r.pageNumber + 1
           \* im.close() of the original once it is converted
           held == IF img.mode # "RGB" THEN r.opened \ {r.idx} ELSE r.opened
           mode == SequenceMode(img)    \* im.mode of the page
       IN jobs' = [jobs EXCEPT ![j] =
            CASE Filter(mode) = "unsupported" ->
                    [Raise(r, "ValueError") EXCEPT !.opened = held]
              [] Filter(mode) # "unsupported" /\ img.enc ->    \* the encoder raises
                    [Raise(r, "encode") EXCEPT !.opened = held]
              [] OTHER ->
                 [r EXCEPT
                    !.opened = held,
                    !.written = @ \o <<r.image_refs[p], r.page_refs[p], r.contents_refs[p]>>,
                    !.pagesrc = Append(@, [ref |-> r.page_refs[p], img |-> r.idx, fr |-> r.fr,
                                           filter |-> Filter(mode),
                                           colorspace |-> ColorSpace(mode),
                                           bits |-> Bits(mode),
                                           decode |-> Decode(mode)]),
                    !.wlog = Append(@, "page"),
                    !.progress = @ + 1,
                    !.pageNumber = p,
                    !.fr = IF r.fr < SequenceFrames(img) THEN @ + 1 ELSE @,
                    !.pc = IF r.fr < SequenceFrames(img) THEN "page" ELSE "lp_close"]]
    /\ UNCHANGED <<inputs, pool, mainframe, fs, queue, shut, subm, pillow>>

\* the switch left as it is after the pages of a recovered image
FlagAfterPages_Kept(truncated, flag) == flag

\* _save: if truncated: ImageFile.LOAD_TRUNCATED_IMAGES = False
FlagAfterPages(truncated, flag) == IF truncated THEN FALSE ELSE flag

\* _save: imSequence.close() and the switch put back, end of one image
LoopClose(j) ==
    /\ jobs[j].pc = "lp_close"
    /\ LET r == jobs[j]
       IN jobs' = [jobs EXCEPT ![j] =
            [r EXCEPT !.opened = @ \ {r.idx},
                      !.idx = IF r.idx < Len(r.ims) THEN @ + 1 ELSE @,
                      !.pc = IF r.idx < Len(r.ims) THEN "lp_open" ELSE "trailer"]]
    /\ LOAD_TRUNCATED_IMAGES' = FlagAfterPages(jobs[j].truncated, LOAD_TRUNCATED_IMAGES)
    /\ UNCHANGED <<inputs, pool, mainframe, fs, queue, shut, subm, loads>>

\* the handle is closed before the cross-reference table is written
TrailerEvents_CloseFirst == <<"close", "xref">>

\* _save: write_xref_and_trailer(), then existing_pdf.close()
TrailerEvents == <<"xref", "close">>

\* _save: write_xref_and_trailer(), fp.flush(), existing_pdf.close();
\* convert: pdf_plugin.close_progress_bar()
Trailer(j) ==
    /\ jobs[j].pc = "trailer"
    /\ files' = IF jobs[j].unlinked THEN files
                 ELSE [files EXCEPT ![jobs[j].target] = "complete"]
    /\ jobs' = [jobs EXCEPT ![j].pc = "done", ![j].xref = TRUE, ![j].fp = "closed",
                            ![j].wlog = @ \o TrailerEvents]
    /\ UNCHANGED <<inputs, pool, mainframe, dirs, queue, shut, subm, pillow>>

\* im.save: the exception of the save handler passes through Image.save, which
\* closes the handle it opened.  The Pillow 9.0.1 the writer was taken from
\* does no more; later releases also remove a file the call created.
SaveExcept(j) ==
    /\ jobs[j].pc = "save_except"
    /\ \E removes \in BOOLEAN :
        LET t == jobs[j].target
            gone == removes /\ jobs[j].created /\ ~jobs[j].unlinked
        IN /\ files' = IF gone THEN [files EXCEPT ![t] = "absent"] ELSE files
           /\ jobs' = [k \in JobIds |->
                IF k = j THEN [jobs[j] EXCEPT !.pc = "aborted", !.fp = "closed",
                                             !.wlog = Append(@, "close")]
                ELSE IF gone /\ jobs[k].fp = "open" /\ jobs[k].target = t
                THEN [jobs[k] EXCEPT !.unlinked = TRUE]
                ELSE jobs[k]]
    /\ UNCHANGED <<inputs, pool, mainframe, dirs, queue, shut, subm, pillow>>

\* one step of the job a worker thread runs
JobStep(j) ==
    \/ LambdaImages(j) \/ LambdaTarget(j)
    \/ ConvertInit(j) \/ ConvertCopy(j) \/ ConvertOpen(j)
    \/ CheckLoad(j) \/ CheckSet(j) \/ CheckRetry(j)
    \/ SaveOpen(j) \/ Prealloc(j) \/ Catalog(j)
    \/ LoopOpen(j) \/ Page(j) \/ LoopClose(j) \/ Trailer(j) \/ SaveExcept(j)

\* ------------------------------------------------------------- collaborators
MkImage(dir, num, c, marker, a) ==
    [dir |-> dir, num |-> num, chap |-> c, marker |-> marker,
     mode |-> a.mode, frames |-> a.frames, dec |-> a.dec, enc |-> a.enc]

\* BaseFormat.get_images(chap_class, chap_images, path, count): downloads the
\* pages of chapter c into dir, named by the running counter, and returns the paths
GetImages(chs, c, dir, cnt) ==
    [k \in 1..Len(chs[c].pages) |-> MkImage(dir, cnt + k - 1, c, FALSE, chs[c].pages[k])]

\* get_chapter_info(chap_class, img_path, replace): the "start of the chapter" image
ChapterInfo(c, dir, cnt) == MkImage(dir, cnt, c, TRUE, Attr("RGB", 1, "ok", FALSE))

\* the counter is not increased after the chapter info image
WithChapter_CounterKept(chs, old, c, dir, cnt) ==
    LET info == IF ~no_chapter_info THEN <<ChapterInfo(c, dir, cnt)>> ELSE <<>>
    IN [list |-> old \o info \o GetImages(chs, c, dir, cnt),
        count |-> cnt + Len(chs[c].pages)]

\* the body of `for chap_class, chap_images in ...` of PDFSingle and PDFVolume:
\* what the list holds after chapter c, and the counter
WithChapter(chs, old, c, dir, cnt) ==
    LET info == IF ~no_chapter_info THEN <<ChapterInfo(c, dir, cnt)>> ELSE <<>>
        cnt2 == IF ~no_chapter_info THEN cnt + 1 ELSE cnt
    IN [list |-> old \o info \o GetImages(chs, c, dir, cnt2),
        count |-> cnt2 + Len(chs[c].pages)]

\* every chapter opens an entry of its own
AppendCache_AlwaysNew(ch, volume, item) ==
    Append(ch, [key |-> volume, chaps |-> <<item>>])

\* PDFVolume.main: append_cache(volume, item) on the dict `cache`
AppendCache(ch, volume, item) ==
    IF \E k \in DOMAIN ch : ch[k].key = volume
    THEN [k \in DOMAIN ch |->
            IF ch[k].key = volume THEN [ch[k] EXCEPT !.chaps = Append(@, item)] ELSE ch[k]]
    ELSE Append(ch, [key |-> volume, chaps |-> <<item>>])

\* PDFVolume.main: the cache after the first n chapters of manga.chapters.iter
RECURSIVE VolumeCache(_, _)
VolumeCache(chs, n) ==
    IF n = 0 THEN <<>>
    ELSE AppendCache(VolumeCache(chs, n - 1), chs[n].volume, n)

\* get_fmt_single_cache(manga): None without chapters, else every chapter
SingleCache(chs) ==
    IF chs = <<>> THEN <<>>
    ELSE <<[key |-> "merged", chaps |-> [k \in 1..Len(chs) |-> k]]>>

\* the file name of group g's target, without ".pdf"
TargetName(g) ==
    CASE grouping = "PerChapter" -> <<"chapter", g>>
      [] grouping = "SingleMerged" -> <<"merged">>
      [] OTHER -> IF cache[g].key = 0 THEN <<"No Volume">> ELSE <<"Vol. ", cache[g].key>>

\* job k has the target t open: from Image.save's open to the end of _save
HoldsTarget(k, t) ==
    /\ jobs[k].target = t
    /\ \/ jobs[k].pc \in {"prealloc", "catalog", "lp_open", "page", "lp_close", "trailer",
                         "save_except"}
       \/ jobs[k].pc \in {"ct_load", "ct_set", "ct_retry"} /\ jobs[k].ret = "loop"

\* delete_file(pdf_file): a handle a job holds on it keeps writing the unlinked file
DeleteFile(t) ==
    /\ files' = [files EXCEPT ![t] = "absent"]
    /\ jobs' = [k \in JobIds |->
            IF HoldsTarget(k, t) THEN [jobs[k] EXCEPT !.unlinked = TRUE] ELSE jobs[k]]

\* worker.submit(lambda: self.convert(images, pdf_file)): the closure is queued;
\* a full queue blocks the submitter
Submit(g) ==
    /\ Len(queue) < QueueCap
    /\ queue' = Append(queue, g)
    /\ jobs' = [jobs EXCEPT ![g].pc = "queued"]
    /\ subm' = [subm EXCEPT ![g] = [imgs |-> lists[images], target |-> pdf_file]]

\* shutil.rmtree(path, ignore_errors=True)
Rmtree(d) == dirs' = [dirs EXCEPT ![d] = "removed"]

\* worker.shutdown(): returns once every submitted job has ended
Shutdown ==
    /\ queue = <<>>
    /\ \A j \in JobIds : Submitted(j) => Terminal(j)
    /\ shut' = TRUE

\* ------------------------------------------------------------- PDF.__init__
\* the guard is left out
InitRaises_Unchecked(ready) == FALSE

\* if not pillow_ready: raise PillowNotInstalled(...)
InitRaises(ready) == ~ready

\* PDF(...), PDFSingle(...), PDFVolume(...): the two subclasses inherit
\* __init__; main() can only be called on a constructed object
PDFInit ==
    /\ mpc = "init"
    /\ mpc' = IF InitRaises(pillow_ready) THEN "PillowNotInstalled" ELSE "start"
    /\ UNCHANGED <<inputs, cache, gi, ci, images, pdf_file, count, lists, visited,
                   fs, worker, pillow>>

\* ---------------------------------------------------------------- PDF.main
\* manga = self.manga; worker = self.create_worker()
PDFMain_Start ==
    /\ grouping = "PerChapter" /\ mpc = "start"
    /\ pool' = "created"
    /\ mpc' = "for"
    /\ UNCHANGED <<inputs, cache, gi, ci, images, pdf_file, count, lists, visited,
                   fs, queue, jobs, shut, subm, pillow>>

\* for chap_class, chap_images in manga.chapters.iter(...): chap_name, count,
\* pdf_file = self.path / (chap_name + '.pdf')
PDFMain_For ==
    /\ grouping = "PerChapter" /\ mpc = "for"
    /\ IF gi > Len(chapters)
       THEN mpc' = "shutdown" /\ UNCHANGED <<count, pdf_file>>
       ELSE mpc' = "exists" /\ count' = 0 /\ pdf_file' = gi
    /\ UNCHANGED <<inputs, cache, gi, ci, images, lists, visited, fs, worker, pillow>>

\* if pdf_file.exists(): delete_file if self.replace, else log and continue
PDFMain_Exists ==
    /\ grouping = "PerChapter" /\ mpc = "exists"
    /\ visited' = visited \cup {gi}
    /\ IF files[pdf_file] # "absent"
       THEN IF replace
            THEN DeleteFile(pdf_file) /\ mpc' = "download" /\ gi' = gi
            ELSE mpc' = "for" /\ gi' = gi + 1 /\ UNCHANGED <<files, jobs>>
       ELSE mpc' = "download" /\ gi' = gi /\ UNCHANGED <<files, jobs>>
    /\ UNCHANGED <<inputs, pool, cache, ci, images, pdf_file, count, lists, dirs,
                   queue, shut, subm, pillow>>

\* chapter_path = create_directory(chap_name, self.path);
\* images = self.get_images(chap_class, chap_images, chapter_path, count)
PDFMain_Download ==
    /\ grouping = "PerChapter" /\ mpc = "download"
    /\ dirs' = [dirs EXCEPT ![gi] = "present"]
    /\ lists' = [lists EXCEPT ![gi] = GetImages(chapters, gi, gi, count)]
    /\ images' = gi
    /\ count' = count + Len(chapters[gi].pages)
    /\ mpc' = "submit"
    /\ UNCHANGED <<inputs, cache, gi, ci, pdf_file, visited, files, worker, pillow>>

\* worker.submit(lambda: self.convert(images, pdf_file))
PDFMain_Submit ==
    /\ grouping = "PerChapter" /\ mpc = "submit"
    /\ Submit(gi)
    /\ mpc' = "rmtree"
    /\ UNCHANGED <<inputs, pool, cache, gi, ci, images, pdf_file, count, lists, visited,
                   fs, shut, pillow>>

\* shutil.rmtree(chapter_path, ignore_errors=True), and on to the next chapter
PDFMain_Rmtree ==
    /\ grouping = "PerChapter" /\ mpc = "rmtree"
    /\ Rmtree(gi)
    /\ gi' = gi + 1
    /\ mpc' = "for"
    /\ UNCHANGED <<inputs, cache, ci, images, pdf_file, count, lists, visited,
                   files, worker, pillow>>

\* worker.shutdown()
PDFMain_Shutdown ==
    /\ grouping = "PerChapter" /\ mpc = "shutdown"
    /\ Shutdown
    /\ mpc' = "done"
    /\ UNCHANGED <<inputs, pool, cache, gi, ci, images, pdf_file, count, lists, visited,
                   fs, queue, jobs, subm, pillow>>

\* ---------------------------------------------------------- PDFSingle.main
\* images = [], count, result_cache = self.get_fmt_single_cache(manga); without
\* chapters worker.shutdown() and return; else pdf_file = merged_name + '.pdf'
PDFSingleMain_Start ==
    /\ grouping = "SingleMerged" /\ mpc = "start"
    /\ pool' = "created"
    /\ images' = 1
    /\ count' = 0
    /\ cache' = SingleCache(chapters)
    /\ IF chapters = <<>>
       THEN shut' = TRUE /\ mpc' = "done" /\ pdf_file' = pdf_file
       ELSE shut' = shut /\ mpc' = "exists" /\ pdf_file' = 1
    /\ UNCHANGED <<inputs, gi, ci, lists, visited, fs, queue, jobs, subm, pillow>>

\* if pdf_file.exists(): delete_file if self.replace, else log and return
PDFSingleMain_Exists ==
    /\ grouping = "SingleMerged" /\ mpc = "exists"
    /\ visited' = visited \cup {gi}
    /\ IF files[pdf_file] # "absent"
       THEN IF replace
            THEN DeleteFile(pdf_file) /\ mpc' = "mkdir"
            ELSE mpc' = "done" /\ UNCHANGED <<files, jobs>>
       ELSE mpc' = "mkdir" /\ UNCHANGED <<files, jobs>>
    /\ UNCHANGED <<inputs, pool, cache, gi, ci, images, pdf_file, count, lists, dirs,
                   queue, shut, subm, pillow>>

\* path = create_directory(merged_name, self.path)
PDFSingleMain_Mkdir ==
    /\ grouping = "SingleMerged" /\ mpc = "mkdir"
    /\ dirs' = [dirs EXCEPT ![gi] = "present"]
    /\ ci' = 1
    /\ mpc' = "chapter"
    /\ UNCHANGED <<inputs, cache, gi, images, pdf_file, count, lists, visited,
                   files, worker, pillow>>

\* for chap_class, chap_images in cache: chapter info image, images.extend(...)
PDFSingleMain_Chapter ==
    /\ grouping = "SingleMerged" /\ mpc = "chapter"
    /\ IF ci > Len(cache[gi].chaps)
       THEN mpc' = "submit" /\ UNCHANGED <<ci, lists, count>>
       ELSE LET w == WithChapter(chapters, lists[images], cache[gi].chaps[ci], gi, count)
            IN /\ lists' = [lists EXCEPT ![images] = w.list]
               /\ count' = w.count
               /\ ci' = ci + 1
               /\ mpc' = mpc
    /\ UNCHANGED <<inputs, cache, gi, images, pdf_file, visited, fs, worker, pillow>>

\* worker.submit(lambda: self.convert(images, pdf_file))
PDFSingleMain_Submit ==
    /\ grouping = "SingleMerged" /\ mpc = "submit"
    /\ Submit(gi)
    /\ mpc' = "rmtree"
    /\ UNCHANGED <<inputs, pool, cache, gi, ci, images, pdf_file, count, lists, visited,
                   fs, shut, pillow>>

\* shutil.rmtree(path, ignore_errors=True)
PDFSingleMain_Rmtree ==
    /\ grouping = "SingleMerged" /\ mpc = "rmtree"
    /\ Rmtree(gi)
    /\ gi' = gi + 1
    /\ mpc' = "shutdown"
    /\ UNCHANGED <<inputs, cache, ci, images, pdf_file, count, lists, visited,
                   files, worker, pillow>>

\* worker.shutdown()
PDFSingleMain_Shutdown ==
    /\ grouping = "SingleMerged" /\ mpc = "shutdown"
    /\ Shutdown
    /\ mpc' = "done"
    /\ UNCHANGED <<inputs, pool, cache, gi, ci, images, pdf_file, count, lists, visited,
                   fs, queue, jobs, subm, pillow>>

\* ---------------------------------------------------------- PDFVolume.main
\* cache = {}; for ... in manga.chapters.iter(...): append_cache(volume, ...)
PDFVolumeMain_Start ==
    /\ grouping = "PerVolume" /\ mpc = "start"
    /\ pool' = "created"
    /\ cache' = VolumeCache(chapters, Len(chapters))
    /\ mpc' = "for"
    /\ UNCHANGED <<inputs, gi, ci, images, pdf_file, count, lists, visited,
                   fs, queue, jobs, shut, subm, pillow>>

\* for volume, chapters in cache.items(): images = [], count = ...(0)
PDFVolumeMain_For ==
    /\ grouping = "PerVolume" /\ mpc = "for"
    /\ IF gi > Len(cache)
       THEN mpc' = "shutdown" /\ UNCHANGED <<images, lists, count>>
       ELSE /\ mpc' = "bind"
            /\ images' = gi
            /\ lists' = [lists EXCEPT ![gi] = <<>>]
            /\ count' = 0
    /\ UNCHANGED <<inputs, cache, gi, ci, pdf_file, visited, fs, worker, pillow>>

\* vol_name, pdf_name, pdf_file = self.path / pdf_name
PDFVolumeMain_Bind ==
    /\ grouping = "PerVolume" /\ mpc = "bind"
    /\ pdf_file' = gi
    /\ mpc' = "exists"
    /\ UNCHANGED <<inputs, cache, gi, ci, images, count, lists, visited,
                   fs, worker, pillow>>

\* if pdf_file.exists(): delete_file if self.replace, else log and return
PDFVolumeMain_Exists ==
    /\ grouping = "PerVolume" /\ mpc = "exists"
    /\ visited' = visited \cup {gi}
    /\ IF files[pdf_file] # "absent"
       THEN IF replace
            THEN DeleteFile(pdf_file) /\ mpc' = "mkdir"
            ELSE mpc' = "done" /\ UNCHANGED <<files, jobs>>
       ELSE mpc' = "mkdir" /\ UNCHANGED <<files, jobs>>
    /\ UNCHANGED <<inputs, pool, cache, gi, ci, images, pdf_file, count, lists, dirs,
                   queue, shut, subm, pillow>>

\* volume_path = create_directory(vol_name, self.path)
PDFVolumeMain_Mkdir ==
    /\ grouping = "PerVolume" /\ mpc = "mkdir"
    /\ dirs' = [dirs EXCEPT ![gi] = "present"]
    /\ ci' = 1
    /\ mpc' = "chapter"
    /\ UNCHANGED <<inputs, cache, gi, images, pdf_file, count, lists, visited,
                   files, worker, pillow>>

\* for chap_class, chap_images in chapters: chapter info image, images.extend(...)
PDFVolumeMain_Chapter ==
    /\ grouping = "PerVolume" /\ mpc = "chapter"
    /\ IF ci > Len(cache[gi].chaps)
       THEN mpc' = "submit" /\ UNCHANGED <<ci, lists, count>>
       ELSE LET w == WithChapter(chapters, lists[images], cache[gi].chaps[ci], gi, count)
            IN /\ lists' = [lists EXCEPT ![images] = w.list]
               /\ count' = w.count
               /\ ci' = ci + 1
               /\ mpc' = mpc
    /\ UNCHANGED <<inputs, cache, gi, images, pdf_file, visited, fs, worker, pillow>>

\* worker.submit(lambda: self.convert(images, pdf_file))
PDFVolumeMain_Submit ==
    /\ grouping = "PerVolume" /\ mpc = "submit"
    /\ Submit(gi)
    /\ mpc' = "rmtree"
    /\ UNCHANGED <<inputs, pool, cache, gi, ci, images, pdf_file, count, lists, visited,
                   fs, shut, pillow>>

\* shutil.rmtree(volume_path, ignore_errors=True), and on to the next volume
PDFVolumeMain_Rmtree ==
    /\ grouping = "PerVolume" /\ mpc = "rmtree"
    /\ Rmtree(gi)
    /\ gi' = gi + 1
    /\ mpc' = "for"
    /\ UNCHANGED <<inputs, cache, ci, images, pdf_file, count, lists, visited,
                   files, worker, pillow>>

\* worker.shutdown()
PDFVolumeMain_Shutdown ==
    /\ grouping = "PerVolume" /\ mpc = "shutdown"
    /\ Shutdown
    /\ mpc' = "done"
    /\ UNCHANGED <<inputs, pool, cache, gi, ci, images, pdf_file, count, lists, visited,
                   fs, queue, jobs, subm, pillow>>

Main ==
    \/ PDFInit
    \/ PDFMain_Start \/ PDFMain_For \/ PDFMain_Exists \/ PDFMain_Download
    \/ PDFMain_Submit \/ PDFMain_Rmtree \/ PDFMain_Shutdown
    \/ PDFSingleMain_Start \/ PDFSingleMain_Exists \/ PDFSingleMain_Mkdir
    \/ PDFSingleMain_Chapter \/ PDFSingleMain_Submit \/ PDFSingleMain_Rmtree
    \/ PDFSingleMain_Shutdown
    \/ PDFVolumeMain_Start \/ PDFVolumeMain_For \/ PDFVolumeMain_Bind
    \/ PDFVolumeMain_Exists \/ PDFVolumeMain_Mkdir \/ PDFVolumeMain_Chapter
    \/ PDFVolumeMain_Submit \/ PDFVolumeMain_Rmtree \/ PDFVolumeMain_Shutdown

\* ------------------------------------------------------------ specifications
\* a chapter of the manga: its volume and the files of its pages
ChapterSet == [volume : Volumes, pages : {<<a>> : a \in PipelineKinds}]

\* how many targets a run has
GroupCount(g, chs) ==
    CASE g = "PerChapter" -> Len(chs)
      [] g = "SingleMerged" -> Len(SingleCache(chs))
      [] OTHER -> Len(VolumeCache(chs, Len(chs)))

\* The construction of one of the three classes and a run of its main().
Init ==
    /\ grouping \in {"PerChapter", "SingleMerged", "PerVolume"}
    /\ replace \in BOOLEAN
    /\ no_chapter_info \in (IF grouping = "PerChapter" THEN {FALSE} ELSE BOOLEAN)
    /\ chapters \in SeqsUpTo(ChapterSet, MaxChapters)
    /\ preexisting \in SUBSET (1..GroupCount(grouping, chapters))
    /\ pillow_ready \in BOOLEAN
    /\ pool = "none"
    /\ mpc = "init"
    /\ cache = <<>>
    /\ gi = 1
    /\ ci = 1
    /\ images = 0
    /\ pdf_file = 0
    /\ count = 0
    /\ lists = [g \in JobIds |-> <<>>]
    /\ visited = {}
    /\ files = [g \in JobIds |-> IF g \in preexisting THEN "old" ELSE "absent"]
    /\ dirs = [g \in JobIds |-> "none"]
    /\ queue = <<>>
    /\ jobs = [j \in JobIds |-> NoJob]
    /\ shut = FALSE
    /\ subm = [j \in JobIds |-> [imgs |-> <<>>, target |-> 0]]
    /\ LOAD_TRUNCATED_IMAGES = FALSE
    /\ loads = {}

Next ==
    \/ Main
    \/ \E j \in JobIds : WorkerTake(j)
    \/ \E j \in JobIds : JobStep(j)

Spec == Init /\ [][Next]_vars

\* One convert job on its own: main() of PDFSingle has downloaded one chapter
\* without chapter info image and has submitted the job; the job runs before
\* main() goes on.  The switch is as an earlier job of the process left it.
InitJob ==
    /\ grouping = "SingleMerged"
    /\ replace = FALSE
    /\ no_chapter_info = TRUE
    /\ chapters \in {<<[volume |-> 0, pages |-> p]>> :
                        p \in SeqsUpTo(ImageKinds, MaxImages) \ {<<>>}}
    /\ preexisting = {}
    /\ pillow_ready = TRUE
    /\ pool = "created"
    /\ mpc = "rmtree"
    /\ cache = SingleCache(chapters)
    /\ gi = 1
    /\ ci = 2
    /\ images = 1
    /\ pdf_file = 1
    /\ count = Len(chapters[1].pages)
    /\ lists = [g \in JobIds |-> IF g = 1 THEN GetImages(chapters, 1, 1, 0) ELSE <<>>]
    /\ visited = {1}
    /\ files = [g \in JobIds |-> "absent"]
    /\ dirs = [g \in JobIds |-> IF g = 1 THEN "present" ELSE "none"]
    /\ queue = <<1>>
    /\ jobs = [j \in JobIds |-> IF j = 1 THEN [NoJob EXCEPT !.pc = "queued"] ELSE NoJob]
    /\ shut = FALSE
    /\ subm = [j \in JobIds |-> IF j = 1 THEN [imgs |-> lists[1], target |-> 1]
                                          ELSE [imgs |-> <<>>, target |-> 0]]
    /\ LOAD_TRUNCATED_IMAGES \in BOOLEAN
    /\ loads = {}

NextJob ==
    \/ \E j \in JobIds : WorkerTake(j)
    \/ \E j \in JobIds : JobStep(j)

SpecJob == InitJob /\ [][NextJob]_vars

\* ------------------------------------------------------------------ claims
\* the convert job has taken its copy of the image list and its target
HasArguments(j) ==
    jobs[j].pc \notin {"none", "queued", "lambda_images", "lambda_target",
                       "convert_init", "convert_copy"}

\* the page loop of _save is running in the frame r
InLoop(r) ==
    \/ r.pc \in {"lp_open", "page", "lp_close"}
    \/ r.pc \in {"ct_load", "ct_set", "ct_retry"} /\ r.ret = "loop"

\* every page of the image at position i of the frame r has been written and
\* the image closed, and the job has not failed
PagesWritten(r, i) ==
    \/ InLoop(r) /\ i < r.idx
    \/ r.pc \in {"trailer", "done"} /\ i <= Len(r.ims)

\* the frame r is between setting the switch for its current image and
\* putting it back
Recovering(r) == r.pc = "ct_retry" \/ (r.pc \in {"page", "lp_close"} /\ r.truncated)

\* how often x occurs in the sequence s
Occurrences(s, x) == Cardinality({k \in DOMAIN s : s[k] = x})

\* the pages a list of source images stands for: frame by frame, in order
RECURSIVE ExpectedPages(_, _)
ExpectedPages(ims, n) ==
    IF n = 0 THEN <<>>
    ELSE ExpectedPages(ims, n - 1) \o [f \in 1..ims[n].frames |-> [img |-> n, fr |-> f]]

\* C1: every decode that runs with LOAD_TRUNCATED_IMAGES on is the retry of
\* check_truncated for an image whose own first decode failed as truncated; no
\* other image, of this or another job, is decoded under the relaxed mode.
C1_RelaxedOnlyForOwnRetry == \A e \in loads : e.relaxed => e.recovering

\* C2: the staging directory of a submitted job is not removed while the job
\* is still queued or running.
C2_DirectoryOutlivesJob ==
    \A j \in JobIds : Submitted(j) /\ ~Terminal(j) => dirs[j] # "removed"

\* C3: a job converts the image list and the target that `images` and
\* `pdf_file` held when it was submitted.
C3_JobUsesSubmittedArguments ==
    \A j \in JobIds :
        HasArguments(j) =>
            /\ jobs[j].ims = subm[j].imgs
            /\ jobs[j].target = subm[j].target

\* C4: no two jobs have the same target open for writing at the same time.
C4_OneWriterPerTarget ==
    \A j, k \in JobIds :
        j # k /\ HoldsTarget(j, jobs[j].target) /\ HoldsTarget(k, jobs[k].target)
            => jobs[j].target # jobs[k].target

\* C5: a target that exists before the run, with replace off, is never
\* submitted, its file stays as it was, and main() still visits every group.
C5_ExistingTargetSkipped ==
    \A g \in preexisting :
        ~replace =>
            /\ ~Submitted(g)
            /\ files[g] = "old"
            /\ mpc = "done" => visited = 1..GroupCount(grouping, chapters)

\* C6: when main() has returned, the worker is shut down and every job the
\* run submitted has completed or aborted.
C6_ReturnedMeansShutDown ==
    mpc = "done" => shut /\ \A j \in JobIds : Submitted(j) => Terminal(j)

\* C7: in a finalized document the page tree has as many pages as the page
\* loop wrote, and every pre-allocated image, page and contents id was
\* written exactly once.
C7_PreallocatedEqualsWritten ==
    \A j \in JobIds :
        jobs[j].pc = "done" =>
            /\ Len(jobs[j].pages) = jobs[j].pageNumber
            /\ \A id \in Range(jobs[j].image_refs) \cup Range(jobs[j].page_refs)
                         \cup Range(jobs[j].contents_refs) :
                    Occurrences(jobs[j].written, id) = 1

\* C8: the k-th page of the page tree shows the k-th frame of the source
\* images, taken image by image in the order given to convert and frame by
\* frame within an image.
C8_PagesInSourceOrder ==
    \A j \in JobIds :
        jobs[j].pc = "done" =>
            LET r == jobs[j]
                want == ExpectedPages(r.ims, Len(r.ims))
            IN /\ Len(r.pages) = Len(want)
               /\ \A k \in 1..Len(r.pages) :
                    \E e \in Range(r.pagesrc) :
                        e.ref = r.pages[k] /\ e.img = want[k].img /\ e.fr = want[k].fr

\* C9: within one job, once the pages of a truncated image are written the
\* switch is off again whenever the job is not in the recovery of its current
\* image, and every later truncated image whose pages are written went
\* through the recovery of check_truncated itself; the truncated image may
\* be the first one, which convert checks before save.
C9_SwitchOffAfterRecoveredPages ==
    \A j \in JobIds :
        LET r == jobs[j]
            done == {i \in 1..Len(r.ims) : PagesWritten(r, i)}
        IN (\E i \in done : r.ims[i].dec = "trunc") =>
            /\ ~Recovering(r) => ~LOAD_TRUNCATED_IMAGES
            /\ \A i, l \in done :
                    i < l /\ r.ims[i].dec = "trunc" /\ r.ims[l].dec = "trunc"
                        => l \in r.recovered

\* C9, its case: a job has finished whose first and second image were both
\* truncated and both went through the recovery
C9_Witness ==
    \E j \in JobIds :
        /\ jobs[j].pc = "done"
        /\ {1, 2} \subseteq jobs[j].recovered
        /\ jobs[j].ims[1].dec = "trunc" /\ jobs[j].ims[2].dec = "trunc"

\* C10: a job that set the switch in check_truncated and then aborted, by
\* the retry or by the encoding of the page, has left the switch off.
C10_SwitchOffAfterAbort ==
    \A j \in JobIds :
        jobs[j].pc = "aborted" /\ jobs[j].recovered # {} => ~LOAD_TRUNCATED_IMAGES

\* C11: once the encoding of a page has failed the job is on its way out or
\* aborted, write_xref_and_trailer has not run and never runs, and no object
\* is written after the failing page.
C11_EncodeFailureAborts ==
    /\ [](\A j \in JobIds :
            jobs[j].err = "encode" =>
                /\ jobs[j].pc \in {"save_except", "aborted"}
                /\ ~jobs[j].xref
                /\ "xref" \notin Range(jobs[j].wlog)
                /\ Len(jobs[j].written) = 2 + 3 * jobs[j].pageNumber)
    /\ [][\A j \in JobIds :
            jobs[j].err = "encode" =>
                /\ jobs'[j].written = jobs[j].written
                /\ jobs'[j].pagesrc = jobs[j].pagesrc]_vars

\* C11, its case: the encoding failed on the second page, after one page
\* had been written
C11_Witness ==
    \E j \in JobIds :
        /\ jobs[j].err = "encode"
        /\ jobs[j].pc = "aborted"
        /\ jobs[j].pageNumber = 1

\* C12: the target of a job that has completed or aborted is absent or a
\* complete PDF with its xref and trailer.
C12_TargetAbsentOrComplete ==
    \A j \in JobIds :
        Terminal(j) => files[jobs[j].target] \in {"absent", "complete"}

\* the modes the if/elif chain of _save has a branch for
Supported == {"1", "L", "P", "RGB", "CMYK"}

C15_HandlesReleased ==
    \A j \in JobIds : Terminal(j) => jobs[j].opened = {}

\* the downloaded pages of a list, without the chapter info images
PagesOf(l) == SelectSeq(l, LAMBDA x : ~x.marker)

\* the pages of the list l that belong to chapter c, as files
PagesOfChapter(l, c) ==
    LET own == SelectSeq(l, LAMBDA x : ~x.marker /\ x.chap = c)
    IN [k \in DOMAIN own |-> Attr(own[k].mode, own[k].frames, own[k].dec, own[k].enc)]

\* the chapters of the list l are in the order they were iterated
ChapterOrderKept(l) == \A k, n \in DOMAIN l : k < n => l[k].chap <= l[n].chap

\* C16: in a PerVolume run that skips no target, once the loop over the
\* volumes has ended there is exactly one submitted job per distinct volume
\* of the chapters, the jobs' volumes (and so their names) differ, and the
\* list handed over with a job holds the pages of exactly the chapters of its
\* volume, chapter by chapter in iteration order.
C16_OneJobPerVolume ==
    (grouping = "PerVolume" /\ (replace \/ preexisting = {}) /\ mpc \in {"shutdown", "done"}) =>
        LET vols == {chapters[c].volume : c \in DOMAIN chapters}
            made == {g \in JobIds : Submitted(g)}
        IN /\ Cardinality(made) = Cardinality(vols)
           /\ made = DOMAIN cache
           /\ \A g, h \in made : g # h => TargetName(g) # TargetName(h)
           /\ \A g \in made :
                /\ cache[g].key \in vols
                /\ ChapterOrderKept(subm[g].imgs)
                /\ \A c \in DOMAIN chapters :
                        PagesOfChapter(subm[g].imgs, c) =
                            IF chapters[c].volume = cache[g].key
                            THEN chapters[c].pages ELSE <<>>

\* C16, its case: a PerVolume run has ended with two chapters of one volume
\* in one job
C16_Witness ==
    /\ grouping = "PerVolume" /\ mpc = "done"
    /\ Len(chapters) = 2 /\ chapters[1].volume = chapters[2].volume
    /\ Submitted(1)
    /\ Len(PagesOf(subm[1].imgs)) = 2

\* C17: when Pillow is not available the construction fails and nothing
\* else happens: no worker is created, no job submitted, no file or
\* directory touched.
C17_NoPillowNoRun ==
    ~pillow_ready =>
        /\ mpc \in {"init", "PillowNotInstalled"}
        /\ pool = "none"
        /\ queue = <<>>
        /\ \A j \in JobIds : ~Submitted(j)
        /\ \A g \in JobIds :
                /\ files[g] = (IF g \in preexisting THEN "old" ELSE "absent")
                /\ dirs[g] = "none"

\* C17, its case: the construction has raised PillowNotInstalled
C17_Witness == ~pillow_ready /\ mpc = "PillowNotInstalled"

\* the place of a step of the writer in the order of _save
Rank(ev) ==
    CASE ev = "header" -> 1
      [] ev = "alloc" -> 2
      [] ev = "catalog" -> 3
      [] ev = "page" -> 4
      [] ev = "xref" -> 5
      [] OTHER -> 6

\* C18: the steps of the writer come in the order header, allocation of the
\* ids, catalog, pages, xref/trailer, close; header, catalog, xref and close
\* happen at most once, the header first, and nothing follows the close; the
\* ids of every triple are allocated before the catalog, and a completed run
\* has written xref and trailer and closed.
C18_WriterOrder ==
    \A j \in JobIds :
        LET w == jobs[j].wlog
        IN /\ \A k, n \in DOMAIN w : k < n => Rank(w[k]) <= Rank(w[n])
           /\ \A ev \in {"header", "catalog", "xref", "close"} : Occurrences(w, ev) <= 1
           /\ w # <<>> => w[1] = "header"
           /\ \A k \in DOMAIN w : w[k] = "close" => k = Len(w)
           /\ "catalog" \in Range(w) =>
                /\ Occurrences(w, "alloc") = Len(jobs[j].pages)
                /\ Occurrences(w, "page") <= Occurrences(w, "alloc")
           /\ jobs[j].pc = "done" =>
                Len(w) >= 2 /\ w[Len(w) - 1] = "xref" /\ w[Len(w)] = "close"

\* C18, its case: a run of _save has closed a document of two pages
C18_Witness ==
    \E j \in JobIds :
        jobs[j].pc = "done" /\ Occurrences(jobs[j].wlog, "page") = 2

\* C19: the list handed over with a job of PDFSingle or PDFVolume holds, with
\* chapter info enabled, one chapter info image per chapter of the job,
\* right before the pages of that chapter, and without it none; chapters keep
\* their order and no file name counter occurs twice in the list.
C19_ChapterInfoBeforeChapter ==
    \A g \in JobIds :
        (grouping \in {"SingleMerged", "PerVolume"} /\ Submitted(g)) =>
            LET l == subm[g].imgs
                chs == Range(cache[g].chaps)
            IN /\ ChapterOrderKept(l)
               /\ \A k, n \in DOMAIN l : k # n => l[k].num # l[n].num
               /\ \A c \in chs : PagesOfChapter(l, c) = chapters[c].pages
               /\ no_chapter_info => \A k \in DOMAIN l : ~l[k].marker
               /\ ~no_chapter_info =>
                    \A c \in chs :
                        /\ Cardinality({k \in DOMAIN l : l[k].marker /\ l[k].chap = c}) = 1
                        /\ \A k \in DOMAIN l :
                            l[k].marker /\ l[k].chap = c =>
                                /\ k < Len(l) /\ l[k + 1].chap = c /\ ~l[k + 1].marker
                                /\ k > 1 => l[k - 1].chap # c

\* C19, its case: PDFSingle has submitted a job of two chapters with their
\* chapter info images
C19_Witness ==
    /\ grouping = "SingleMerged" /\ ~no_chapter_info
    /\ Submitted(1)
    /\ Len(chapters) = 2
    /\ Len(subm[1].imgs) = 4

\* C20: the progress counter counts the pages written, never exceeds the
\* total the bar was created with, and equals it when the job has completed.
C20_ProgressWithinTotal ==
    \A j \in JobIds :
        /\ jobs[j].progress = jobs[j].pageNumber
        /\ jobs[j].progress <= jobs[j].total
        /\ jobs[j].pc = "done" => jobs[j].progress = jobs[j].total

====
